---- MODULE Spec2Model ----
(***************************************************************************)
(* State-machine model of demo/demo_handmocap.py: main() and the frame     *)
(* loop of run_hand_mocap().  The detector, the regressor, the renderer    *)
(* and the capture are external; what they return is drawn from small sets *)
(* (list lengths, whether a frame was obtained).  Every file written and   *)
(* every external call is appended to the ghost variable log.              *)
(***************************************************************************)
EXTENDS Integers, Sequences, FiniteSets, TLC

\* ------------------------------------------------------------- bounds
MaxStart  == 1      \* args.start_frame ranges over 0..MaxStart
MaxEnd    == 2      \* args.end_frame ranges over 0..MaxEnd and Infinite
MaxFrames == 2      \* a finite input holds 0..MaxFrames frames
MaxHands  == 1      \* the external models return lists of 0..MaxHands entries

Infinite == 0 - 1   \* float('inf') for end_frame; an endless webcam stream
Unbound  == 0 - 1   \* a local variable that has not been assigned yet
NoIndex  == 0 - 1   \* image_path has not been assigned yet

Max2(a, b) == IF a >= b THEN a ELSE b
\* No finite run reads more than this many frames; it only stops the run
\* on an endless stream with an infinite end_frame.
MaxReads == Max2(MaxStart, Max2(MaxFrames, MaxEnd)) + 1

InputTypes == {"image_dir", "bbox_dir", "video", "webcam"}
CropTypes  == {"hand_crop", "no_crop"}
FrameCounts == (0..MaxFrames) \cup {Infinite}
EndFrames   == (0..MaxEnd) \cup {Infinite}

VARIABLES
    args,            \* the parsed command line (DemoOptions().parse())
    cuda_available,  \* torch.cuda.is_available()
    input_type,      \* what setup_input reports for args
    num_frames,      \* length of input_data (list) or of the stream (capture)
    pc,              \* the statement about to be executed
    device,          \* main's device
    constructed,     \* the components main / run_hand_mocap have constructed
    read_count,      \* number of input_data.read() calls made so far
    cur_frame,
    video_frame,
    img_ok,          \* img_original_bgr is not None
    img_pos,         \* ghost: 0-based position in the input of img_original_bgr
    image_idx,       \* the frame index image_path is named after
    load_bbox,
    hand_len,        \* len(hand_bbox_list), or Unbound
    body_len,        \* len(body_bbox_list), or Unbound
    pred_len,        \* len(pred_output_list), or Unbound
    has_left,        \* pred_output_list[0]['left_hand'] is not None
    vis_initialized, \* NonBlockVisualizer.__initialized
    log,             \* ghost: the external calls and file writes, in order
    empty_frames,    \* ghost: the frame indices whose hand_bbox_list was empty
    abort            \* the exception that ended the process, if any

vars == <<args, cuda_available, input_type, num_frames, pc, device, constructed,
          read_count, cur_frame, video_frame, img_ok, img_pos, image_idx,
          load_bbox, hand_len, body_len, pred_len, has_left, vis_initialized,
          log, empty_frames, abort>>

NoAbort == [kind |-> "none", line |-> 0]

Init ==
    /\ args \in [out_dir_set : BOOLEAN, start_frame : 0..MaxStart,
                 end_frame : EndFrames, crop_type : CropTypes,
                 save_frame : BOOLEAN, save_bbox_output : BOOLEAN,
                 save_pred_pkl : BOOLEAN, no_video_out : BOOLEAN]
    /\ cuda_available \in BOOLEAN
    /\ input_type \in InputTypes
    /\ num_frames \in FrameCounts
    /\ (num_frames = Infinite => input_type = "webcam")
    /\ pc = "select_device"
    /\ device = "unset"
    /\ constructed = {}
    /\ read_count = 0
    /\ cur_frame = 0
    /\ video_frame = 0
    /\ img_ok = FALSE
    /\ img_pos = NoIndex
    /\ image_idx = NoIndex
    /\ load_bbox = FALSE
    /\ hand_len = Unbound
    /\ body_len = Unbound
    /\ pred_len = Unbound
    /\ has_left = FALSE
    /\ vis_initialized = FALSE
    /\ log = <<>>
    /\ empty_frames = {}
    /\ abort = NoAbort

\* ------------------------------------------------------------- helpers
Event(op, idx, pos) == [op |-> op, idx |-> idx, pos |-> pos]
\* An external call or a file write made for the frame image_path names.
Emit(op) == Append(log, Event(op, image_idx, img_pos))
EmitIf(cond, op) == IF cond THEN Emit(op) ELSE log

Raise(kind, line) ==
    /\ pc' = "aborted"
    /\ abort' = [kind |-> kind, line |-> line]

\* a > b where b may be float('inf')
Gt(a, b) == b # Infinite /\ a > b
\* a < b where b may be float('inf')
Lt(a, b) == b = Infinite \/ a < b

\* input_data holds a frame at 0-based position p
HasFrame(p) == num_frames = Infinite \/ p < num_frames

IsCapture == input_type \in {"video", "webcam"}

\* ------------------------------------------------------------- main()
\* line 226
SelectDevice ==
    /\ pc = "select_device"
    /\ device' = IF cuda_available THEN "cuda" ELSE "cpu"
    /\ pc' = "assert_cuda"
    /\ UNCHANGED <<args, cuda_available, input_type, num_frames, constructed,
                   read_count, cur_frame, video_frame, img_ok, img_pos, image_idx,
                   load_bbox, hand_len, body_len, pred_len, has_left,
                   vis_initialized, log, empty_frames, abort>>

CudaAssertionDropped == TRUE

\* line 227: the asserted condition
CudaAssertion == cuda_available

AssertCuda ==
    /\ pc = "assert_cuda"
    /\ IF CudaAssertion
       THEN pc' = "make_detector" /\ abort' = abort
       ELSE Raise("AssertionError", 227)
    /\ UNCHANGED <<args, cuda_available, input_type, num_frames, device, constructed,
                   read_count, cur_frame, video_frame, img_ok, img_pos, image_idx,
                   load_bbox, hand_len, body_len, pred_len, has_left,
                   vis_initialized, log, empty_frames>>

Construct(at, what, next) ==
    /\ pc = at
    /\ constructed' = constructed \cup {what}
    /\ pc' = next
    /\ UNCHANGED <<args, cuda_available, input_type, num_frames, device,
                   read_count, cur_frame, video_frame, img_ok, img_pos, image_idx,
                   load_bbox, hand_len, body_len, pred_len, has_left,
                   vis_initialized, log, empty_frames, abort>>

\* line 230
MakeDetector == Construct("make_detector", "HandBboxDetector", "make_mocap")
\* line 233
MakeMocap == Construct("make_mocap", "HandMocap", "make_visualizer")
\* lines 236-240, then the call of line 243
MakeVisualizer == Construct("make_visualizer", "Visualizer", "setup_input")

\* ------------------------------------------------------------- run_hand_mocap()
\* line 60: setup_input opens the capture for video and webcam input
SetupInput ==
    Construct("setup_input",
              IF IsCapture THEN "VideoCapture" ELSE "input_list",
              "custom_vis")

\* lines 63-78 and NonBlockVisualizer.__init__ (lines 29-38)
MakeNonBlockVisualizer ==
    /\ pc = "custom_vis"
    /\ constructed' = constructed \cup {"NonBlockVisualizer"}
    /\ vis_initialized' = FALSE
    /\ pc' = "assert_out_dir"
    /\ UNCHANGED <<args, cuda_available, input_type, num_frames, device,
                   read_count, cur_frame, video_frame, img_ok, img_pos, image_idx,
                   load_bbox, hand_len, body_len, pred_len, has_left, log,
                   empty_frames, abort>>

OutDirAssertionDropped == TRUE

\* line 80: the asserted condition
OutDirAssertion == args.out_dir_set

\* lines 80-82
AssertOutDir ==
    /\ pc = "assert_out_dir"
    /\ IF OutDirAssertion
       THEN /\ cur_frame' = args.start_frame
            /\ video_frame' = 0
            /\ pc' = "loop"
            /\ abort' = abort
       ELSE /\ Raise("AssertionError", 80)
            /\ UNCHANGED <<cur_frame, video_frame>>
    /\ UNCHANGED <<args, cuda_available, input_type, num_frames, device, constructed,
                   read_count, img_ok, img_pos, image_idx,
                   load_bbox, hand_len, body_len, pred_len, has_left,
                   vis_initialized, log, empty_frames>>

AdvanceByTwo(cf) == cf + 2

\* line 135
Advance(cf) == cf + 1

LoopBreaksOnRangeOnly(ok, cf) == Gt(cf, args.end_frame)

\* line 136: the condition of the break
LoopBreaks(ok, cf) == ~ok \/ Gt(cf, args.end_frame)

SkipPhaseOneMore(vf, cf) == vf <= cf

\* lines 108 and 122: the frame just read is one of the frames to skip
SkipPhase(vf, cf) == vf < cf

\* lines 85-104 and 135-137: image_dir input (bboxes = FALSE) and bbox_dir
\* input (bboxes = TRUE).  cv2.imread returns None for a file it cannot decode.
LoadFromList(bboxes) ==
    /\ pc = "loop"
    /\ cur_frame < MaxReads
    /\ IF cur_frame < num_frames
       THEN \E readable \in BOOLEAN, h \in 0..MaxHands, b \in 0..MaxHands :
              /\ image_idx' = cur_frame
              /\ img_pos' = cur_frame
              /\ img_ok' = readable
              /\ load_bbox' = bboxes
              /\ hand_len' = IF bboxes THEN h ELSE hand_len
              /\ body_len' = IF bboxes THEN b ELSE body_len
              /\ (~bboxes => h = 0 /\ b = 0)
              /\ log' = log
                    \o <<Event("name", cur_frame, cur_frame)>>
                    \o (IF bboxes
                        THEN <<Event("load_bbox", cur_frame, cur_frame)>>
                        ELSE <<>>)
                    \o <<Event("imread", cur_frame, cur_frame)>>
              /\ pc' = IF LoopBreaks(readable, Advance(cur_frame))
                       THEN "after_loop" ELSE "bbox"
       ELSE /\ img_ok' = FALSE
            /\ load_bbox' = FALSE
            /\ pc' = IF LoopBreaks(FALSE, Advance(cur_frame))
                     THEN "after_loop" ELSE "bbox"
            /\ UNCHANGED <<image_idx, img_pos, hand_len, body_len, log>>
    /\ cur_frame' = Advance(cur_frame)
    /\ UNCHANGED <<args, cuda_available, input_type, num_frames, device, constructed,
                   read_count, video_frame, pred_len, has_left,
                   vis_initialized, empty_frames, abort>>

\* lines 88-93
LoadImageDir == input_type = "image_dir" /\ LoadFromList(FALSE)
\* lines 95-104
LoadBboxDir == input_type = "bbox_dir" /\ LoadFromList(TRUE)

\* lines 85-86, 106-131 and 135-137: one pass of the loop for a capture
LoadFromCapture ==
    /\ pc = "loop"
    /\ read_count < MaxReads
    /\ read_count' = read_count + 1
    /\ img_ok' = HasFrame(read_count)
    /\ img_pos' = read_count
    /\ load_bbox' = FALSE
    /\ IF SkipPhase(video_frame, cur_frame)
       THEN /\ video_frame' = video_frame + 1
            /\ log' = Append(log, Event("discard", NoIndex, read_count))
            /\ pc' = "loop"
            /\ UNCHANGED <<cur_frame, image_idx>>
       ELSE /\ image_idx' = cur_frame
            /\ video_frame' = IF HasFrame(read_count)
                              THEN video_frame + 1 ELSE video_frame
            /\ log' = log
                  \o <<Event("name", cur_frame, read_count)>>
                  \o (IF HasFrame(read_count) /\ args.save_frame
                      THEN <<Event("save_frame", cur_frame, read_count)>>
                      ELSE <<>>)
            /\ cur_frame' = Advance(cur_frame)
            /\ pc' = IF LoopBreaks(HasFrame(read_count), Advance(cur_frame))
                     THEN "after_loop" ELSE "bbox"
    /\ UNCHANGED <<args, cuda_available, input_type, num_frames, device, constructed,
                   hand_len, body_len, pred_len, has_left, vis_initialized,
                   empty_frames, abort>>

\* lines 106-117
LoadVideo == input_type = "video" /\ LoadFromCapture
\* lines 119-131
LoadWebcam == input_type = "webcam" /\ LoadFromCapture

FrameVarsUnchanged ==
    UNCHANGED <<args, cuda_available, input_type, num_frames, device, constructed,
                read_count, cur_frame, video_frame, img_ok, img_pos, image_idx,
                load_bbox>>

\* lines 141-155: the hand boxes of the frame
ObtainBboxes ==
    /\ pc = "bbox"
    /\ IF load_bbox
       THEN /\ pc' = "save_bbox"
            /\ UNCHANGED <<hand_len, body_len, log, abort>>
       ELSE IF args.crop_type = "hand_crop"
       THEN /\ hand_len' = 1
            /\ log' = Emit("full_image_bbox")
            /\ pc' = "save_bbox"
            /\ UNCHANGED <<body_len, abort>>
       ELSE IF args.crop_type # "no_crop"
       THEN /\ Raise("AssertionError", 153)
            /\ UNCHANGED <<hand_len, body_len, log>>
       ELSE \E h \in 0..MaxHands, b \in 0..MaxHands :
              /\ hand_len' = h
              /\ body_len' = b
              /\ log' = Emit("detect")
              /\ pc' = "save_bbox"
              /\ abort' = abort
    /\ FrameVarsUnchanged
    /\ UNCHANGED <<pred_len, has_left, vis_initialized, empty_frames>>

\* lines 158-159; reading a local that was never assigned raises
SaveBboxOutput ==
    /\ pc = "save_bbox"
    /\ IF ~args.save_bbox_output
       THEN pc' = "check_hands" /\ UNCHANGED <<log, abort>>
       ELSE IF body_len = Unbound \/ hand_len = Unbound
       THEN Raise("UnboundLocalError", 159) /\ log' = log
       ELSE pc' = "check_hands" /\ log' = Emit("save_bbox") /\ abort' = abort
    /\ FrameVarsUnchanged
    /\ UNCHANGED <<hand_len, body_len, pred_len, has_left, vis_initialized,
                   empty_frames>>

NoHandNever(h) == h < 0

\* line 161
NoHand(h) == h < 1

\* lines 161-163
CheckHands ==
    /\ pc = "check_hands"
    /\ pc' = IF NoHand(hand_len) THEN "loop" ELSE "regress"
    /\ empty_frames' = IF hand_len = 0
                       THEN empty_frames \cup {image_idx} ELSE empty_frames
    /\ FrameVarsUnchanged
    /\ UNCHANGED <<hand_len, body_len, pred_len, has_left, vis_initialized,
                   log, abort>>

\* lines 166-167: what hand_mocap.regress returns is up to the regressor
Regress ==
    /\ pc = "regress"
    /\ \E p \in 0..MaxHands, left \in BOOLEAN :
          /\ (p = 0 => ~left)
          /\ pred_len' = p
          /\ has_left' = left
    /\ log' = Emit("regress")
    /\ pc' = "assert_lens"
    /\ FrameVarsUnchanged
    /\ UNCHANGED <<hand_len, body_len, vis_initialized, empty_frames, abort>>

\* line 168: the asserted condition
HandBodyAssertion(h, b) == h = b
\* line 169: the asserted condition
BodyPredAssertion(b, p) == b = p

\* lines 168-169
AssertLens ==
    /\ pc = "assert_lens"
    /\ IF body_len = Unbound
       THEN Raise("UnboundLocalError", 168)
       ELSE IF ~HandBodyAssertion(hand_len, body_len)
       THEN Raise("AssertionError", 168)
       ELSE IF ~BodyPredAssertion(body_len, pred_len)
       THEN Raise("AssertionError", 169)
       ELSE pc' = "update_pcd" /\ abort' = abort
    /\ FrameVarsUnchanged
    /\ UNCHANGED <<hand_len, body_len, pred_len, has_left, vis_initialized,
                   log, empty_frames>>

\* lines 175-182 and NonBlockVisualizer.update_renderer (lines 40-53)
UpdatePointCloud ==
    /\ pc = "update_pcd"
    /\ IF ~has_left
       THEN Raise("TypeError", 175) /\ UNCHANGED <<vis_initialized, log>>
       ELSE /\ vis_initialized' = TRUE
            /\ log' = Emit(IF vis_initialized THEN "update_geometry"
                                              ELSE "add_geometry")
            /\ pc' = "visualize"
            /\ abort' = abort
    /\ FrameVarsUnchanged
    /\ UNCHANGED <<hand_len, body_len, pred_len, has_left, empty_frames>>

\* lines 187-198; ImShow (lines 196-198) changes nothing that is modelled
Visualize ==
    /\ pc = "visualize"
    /\ log' = Emit("visualize")
    /\ pc' = "save_res_img"
    /\ FrameVarsUnchanged
    /\ UNCHANGED <<hand_len, body_len, pred_len, has_left, vis_initialized,
                   empty_frames, abort>>

\* lines 201-202
SaveResImg ==
    /\ pc = "save_res_img"
    /\ log' = EmitIf(args.out_dir_set, "save_res_img")
    /\ pc' = "save_pkl"
    /\ FrameVarsUnchanged
    /\ UNCHANGED <<hand_len, body_len, pred_len, has_left, vis_initialized,
                   empty_frames, abort>>

\* lines 205-210
SavePredPkl ==
    /\ pc = "save_pkl"
    /\ log' = EmitIf(args.save_pred_pkl, "save_pkl")
    /\ pc' = "loop"
    /\ FrameVarsUnchanged
    /\ UNCHANGED <<hand_len, body_len, pred_len, has_left, vis_initialized,
                   empty_frames, abort>>

GenVideoCondAnyInput == ~args.no_video_out

\* line 213
GenVideoCond == ~args.no_video_out /\ input_type \in {"video", "webcam"}

\* lines 213-214
GenVideoOut ==
    /\ pc = "after_loop"
    /\ log' = IF GenVideoCond
              THEN Append(log, Event("gen_video", NoIndex, NoIndex))
              ELSE log
    /\ pc' = "release"
    /\ FrameVarsUnchanged
    /\ UNCHANGED <<hand_len, body_len, pred_len, has_left, vis_initialized,
                   empty_frames, abort>>

\* line 217
ReleaseCond == input_type = "webcam" /\ "VideoCapture" \in constructed

\* lines 217-219
ReleaseCapture ==
    /\ pc = "release"
    /\ log' = IF ReleaseCond
              THEN Append(log, Event("release", NoIndex, NoIndex))
              ELSE log
    /\ pc' = "done"
    /\ FrameVarsUnchanged
    /\ UNCHANGED <<hand_len, body_len, pred_len, has_left, vis_initialized,
                   empty_frames, abort>>

Next ==
    \/ SelectDevice
    \/ AssertCuda
    \/ MakeDetector
    \/ MakeMocap
    \/ MakeVisualizer
    \/ SetupInput
    \/ MakeNonBlockVisualizer
    \/ AssertOutDir
    \/ LoadImageDir
    \/ LoadBboxDir
    \/ LoadVideo
    \/ LoadWebcam
    \/ ObtainBboxes
    \/ SaveBboxOutput
    \/ CheckHands
    \/ Regress
    \/ AssertLens
    \/ UpdatePointCloud
    \/ Visualize
    \/ SaveResImg
    \/ SavePredPkl
    \/ GenVideoOut
    \/ ReleaseCapture

Spec == Init /\ [][Next]_vars

\* The runs checked for termination: the flags that only decide whether a
\* file is written go together; everything that steers the loop is free.
LiveInit ==
    /\ Init
    /\ args.save_frame = args.save_bbox_output
    /\ args.save_pred_pkl = args.save_bbox_output
    /\ ~args.no_video_out

\* The script is one thread: whenever a statement can run, it runs.
LiveSpec == LiveInit /\ [][Next]_vars /\ WF_vars(Next)

\* ------------------------------------------------------------- properties
Count(op) == Cardinality({i \in DOMAIN log : log[i].op = op})

\* the statements of main() before the call of run_hand_mocap
MainPcs == {"select_device", "assert_cuda", "make_detector", "make_mocap",
            "make_visualizer"}
\* the statements of run_hand_mocap before the frame loop
PreLoopPcs == {"setup_input", "custom_vis", "assert_out_dir"}
\* the statements of one frame after hand_mocap.regress has returned and
\* the length assertions have passed
AfterAssertPcs == {"update_pcd", "visualize", "save_res_img", "save_pkl"}

\* what the script does to one frame
FrameEffects == {"save_frame", "save_bbox", "regress", "visualize",
                 "save_res_img", "save_pkl"}
\* what is done to a frame that has at least one hand box
ProcessingOps == {"regress", "add_geometry", "update_geometry", "visualize",
                  "save_res_img", "save_pkl"}

\* C1: once hand_mocap.regress has returned for a frame, both lists are
\* assigned when the length check is reached, the loop goes on to the
\* visualization only with three lists of equal length, and the only way
\* the check of lines 168-169 ends the process is an assertion failure.
C1_LengthCheckIsAnAssertion ==
    /\ (pc = "assert_lens" => hand_len # Unbound /\ body_len # Unbound)
    /\ (pc \in AfterAssertPcs => hand_len = body_len /\ body_len = pred_len)
    /\ (pc = "aborted" /\ abort.line \in {168, 169}
          => abort.kind = "AssertionError")

\* C2: when the frame loop of a capture-backed input (video or webcam) has
\* finished and the function returns, the capture has been released exactly
\* once, and nothing is read from it after the release.
C2_CaptureReleasedOnce ==
    /\ Count("release") <= 1
    /\ (pc = "done" /\ IsCapture => Count("release") = 1)
    /\ \A i \in DOMAIN log :
          log[i].op = "release" =>
              \A j \in (i + 1)..Len(log) : log[j].op \notin {"discard", "name"}

\* C3: without an output directory the run stops at the assertion of line 80:
\* the frame loop is never entered, nothing is read from the input, no model
\* is called and no file is written.
C3_NoOutDirAbortsBeforeLoop ==
    ~args.out_dir_set =>
        /\ pc \in MainPcs \cup PreLoopPcs \cup {"aborted"}
        /\ log = <<>>
        /\ read_count = 0
        /\ (pc = "aborted" => /\ abort.kind = "AssertionError"
                              /\ abort.line \in {80, 227})

C3_Witness ==
    /\ ~args.out_dir_set
    /\ pc = "aborted"
    /\ abort = [kind |-> "AssertionError", line |-> 80]
    /\ "VideoCapture" \in constructed

\* C4: without CUDA main stops at the assertion of line 227: none of
\* HandBboxDetector, HandMocap, Visualizer is constructed, and run_hand_mocap
\* is never entered; it never runs with the CPU device.
C4_NoCudaAbortsBeforeSetup ==
    /\ ~cuda_available =>
          /\ pc \in {"select_device", "assert_cuda", "aborted"}
          /\ constructed = {}
          /\ (pc = "aborted" => abort = [kind |-> "AssertionError", line |-> 227])
    /\ (pc \notin MainPcs /\ abort.line # 227) => device = "cuda"

C4_Witness ==
    /\ ~cuda_available
    /\ device = "cpu"
    /\ pc = "aborted"
    /\ abort = [kind |-> "AssertionError", line |-> 227]

\* the frames taken, in order
Names == SelectSeq(log, LAMBDA e : e.op = "name")

StepOrder ==
    [load_bbox |-> 1, full_image_bbox |-> 1, detect |-> 1, regress |-> 2,
     visualize |-> 3, save_res_img |-> 4, save_pkl |-> 5]
\* the steps of the frames, in order
Steps == SelectSeq(log, LAMBDA e : e.op \in DOMAIN StepOrder)

\* C5: the frame loop is single-pass: the indices of the frames taken go up
\* by one, no index is regressed or visualized twice, the steps of one frame
\* come in the order boxes, regress, visualize, result image, pickle, and no
\* step of an earlier frame follows a step of a later one.
C5_SinglePass ==
    /\ \A i \in 1..(Len(Names) - 1) : Names[i + 1].idx = Names[i].idx + 1
    /\ \A i \in DOMAIN log :
          log[i].op \in {"regress", "visualize"} =>
              \A j \in (i + 1)..Len(log) :
                  log[j].op = log[i].op => log[j].idx # log[i].idx
    /\ \A i \in 1..(Len(Steps) - 1) :
          \/ Steps[i].idx < Steps[i + 1].idx
          \/ /\ Steps[i].idx = Steps[i + 1].idx
             /\ StepOrder[Steps[i].op] < StepOrder[Steps[i + 1].op]

C5_Witness ==
    /\ pc = "loop"
    /\ \E i, j \in DOMAIN log :
          /\ i < j
          /\ log[i].op = "save_pkl" /\ log[j].op = "save_pkl"
          /\ log[j].idx = log[i].idx + 1

\* C6: every effect on a frame concerns an index i with
\* start_frame <= i < end_frame, so at most end_frame - start_frame frames
\* have any effect.
C6_EffectsWithinFrameRange ==
    /\ \A i \in DOMAIN log :
          log[i].op \in FrameEffects =>
              /\ args.start_frame <= log[i].idx
              /\ Lt(log[i].idx, args.end_frame)
    /\ args.end_frame # Infinite =>
          Cardinality({log[i].idx : i \in {k \in DOMAIN log : log[k].op \in FrameEffects}})
              <= Max2(0, args.end_frame - args.start_frame)

\* C7: the output video is generated at most once, only after the frame loop
\* has ended and so after every result image; when the function gets past the
\* loop it is generated exactly when no_video_out is false and the input is a
\* video or the webcam.
C7_VideoOutAfterLoop ==
    /\ Count("gen_video") <= 1
    /\ (Count("gen_video") = 1 => pc \in {"release", "done"})
    /\ (pc \in {"release", "done"} =>
          (Count("gen_video") = 1 <=> (~args.no_video_out /\ IsCapture)))
    /\ \A i \in DOMAIN log :
          log[i].op = "gen_video" =>
              \A j \in (i + 1)..Len(log) : log[j].op = "release"

C7_Witness ==
    /\ pc = "done"
    /\ Count("gen_video") = 1
    /\ Count("save_res_img") >= 1

\* C8: a frame whose hand_bbox_list is empty is skipped and the run goes on:
\* nothing is regressed, rendered or saved as a result for it, its boxes are
\* still written when save_bbox_output is set, and the loop continues with
\* cur_frame already at the next index.
C8_EmptyFrameSkipped ==
    /\ [](\A k \in empty_frames :
            /\ k < cur_frame
            /\ \A i \in DOMAIN log :
                  log[i].idx = k => log[i].op \notin ProcessingOps
            /\ args.save_bbox_output =>
                  \E i \in DOMAIN log : log[i] = Event("save_bbox", k, k))
    /\ [][(pc = "check_hands" /\ hand_len = 0) =>
            /\ pc' = "loop"
            /\ cur_frame' = image_idx + 1
            /\ log' = log]_vars

C8_Witness ==
    \E k \in empty_frames :
        /\ args.save_bbox_output
        /\ \E i \in DOMAIN log : log[i].op = "save_pkl" /\ log[i].idx = k + 1

\* C9: on a capture exactly the first start_frame frames read are discarded,
\* afterwards video_frame = cur_frame whenever a frame is named, and every
\* frame named, saved or processed carries its 0-based stream position.
C9_NameIsStreamPosition ==
    IsCapture =>
        /\ \A i \in DOMAIN log :
              /\ log[i].op = "discard" => log[i].pos < args.start_frame
              /\ log[i].op \in {"name"} \cup FrameEffects => log[i].idx = log[i].pos
        /\ (Count("name") >= 1 => Count("discard") = args.start_frame)
        /\ (pc = "loop" => video_frame <= cur_frame)
        /\ (pc = "loop" /\ Count("name") >= 1 => video_frame = cur_frame)

C9_Witness ==
    /\ IsCapture
    /\ args.start_frame >= 1
    /\ \E k \in empty_frames :
          \E i \in DOMAIN log : log[i].op = "save_res_img" /\ log[i].idx > k

\* the input is finite or end_frame is finite
FiniteRun == num_frames # Infinite \/ args.end_frame # Infinite

\* C10 as stated: the frame loop of a finite run always ends in the cleanup
\* after the loop, so nothing ends the process inside the loop.  Stated for
\* the crop type no_crop, where every local the loop reads is assigned.
C10_LoopReachesCleanup ==
    (FiniteRun /\ args.crop_type = "no_crop" /\ pc = "aborted")
        => abort.line \in {80, 227}

\* C10 as amended: the frame loop of a finite run always ends: the run reaches
\* the cleanup after the loop and returns, or an exception ends the process.
C10_LoopTerminates ==
    (pc = "loop" /\ FiniteRun) ~> (pc \in {"done", "aborted"})

C10_Witness ==
    /\ pc = "done"
    /\ IsCapture
    /\ num_frames # Infinite
    /\ args.start_frame > num_frames
    /\ Count("discard") = args.start_frame
====
